---------------------------- MODULE Spec2Model ----------------------------
(***************************************************************************)
(* Per-message encryption core of the mail server                          *)
(* (crates/jmap/src/email/crypto.rs): the already-encrypted detector, the  *)
(* certificate bundle parser, the versioned parameter record, and the      *)
(* message splitter / encrypt orchestrator.                                *)
(*                                                                         *)
(* Bytes are natural numbers (ASCII codes for text), byte strings are      *)
(* sequences of them.  Option<T> is a record [some |-> BOOLEAN, v |-> T].  *)
(***************************************************************************)
EXTENDS Integers, Sequences, FiniteSets, Bags, TLC

VARIABLES
    dmsg,        \* detector: the parsed message handed to is_encrypted
    dpc,         \* detector: "input" before the call, "done" after
    detected,    \* detector: the value is_encrypted returned
    blob,        \* bundle parser: the uploaded byte blob
    shape,       \* bundle parser: how the blob was put together (its blocks)
    cpc,         \* bundle parser: "input", "parsed", "built"
    parsed,      \* bundle parser: what try_parse_certs returned
    encryption,  \* form handler: the value of the "encryption" field
    built,       \* form handler: the EncryptionParams built, or the error
    rec,         \* parameter store: the record given to serialize
    wire,        \* parameter store: the bytes given to deserialize
    ppc,         \* parameter store: "input", "serialized", "done"
    decoded,     \* parameter store: what deserialize returned
    emsg,        \* encrypt: the parsed message encrypt is called on
    params,      \* encrypt: the EncryptionParams of the call
    epc,         \* encrypt: the position of the call
    outer_message, \* encrypt: the outer buffer (a sequence of lines)
    inner_message, \* encrypt: the inner buffer (a sequence of lines)
    work,        \* encrypt: the values a step leaves for the next one
    result,      \* encrypt: what the call returned
    round,       \* encrypt: how many times an output was fed back
    ran,         \* encrypt: the steps of the call so far and where each ran
    store,       \* form: the stored encryption parameters of each principal
    form,        \* form: the fields of the submission being handled
    fpc,         \* form: the position of validate_form
    token,       \* form: the principal authenticate_plain returned
    fparams,     \* form: the EncryptionParams validate_form built
    selftest,    \* form: how the test encryption ended
    response,    \* form: what validate_form returned
    before,      \* form: the store when the submission arrived
    submissions, \* form: how many submissions have arrived
    tls_certificates, \* acme: the shared map from domain name to certificate
    setcert      \* acme: each set_cert call: its arguments, position and copy

vars == <<dmsg, dpc, detected, blob, shape, cpc, parsed, encryption, built,
          rec, wire, ppc, decoded,
          emsg, params, epc, outer_message, inner_message, work, result, round,
          ran,
          store, form, fpc, token, fparams, selftest, response, before, submissions,
          tls_certificates, setcert>>

detVars == <<dmsg, dpc, detected>>
certVars == <<blob, shape, cpc, parsed, encryption, built>>
storeVars == <<rec, wire, ppc, decoded>>
encVars == <<emsg, params, epc, outer_message, inner_message, work, result, round,
            ran>>
formVars == <<store, form, fpc, token, fparams, selftest, response, before, submissions>>
acmeVars == <<tls_certificates, setcert>>

\* what the actions of one component leave alone: the other components
detOthers == <<certVars, storeVars, encVars, formVars, acmeVars>>
certOthers == <<detVars, storeVars, encVars, formVars, acmeVars>>
storeOthers == <<detVars, certVars, encVars, formVars, acmeVars>>
encOthers == <<detVars, certVars, storeVars, formVars, acmeVars>>
formOthers == <<detVars, certVars, storeVars, encVars, acmeVars>>
acmeOthers == <<detVars, certVars, storeVars, encVars, formVars>>

-----------------------------------------------------------------------------
(* Option values and byte-string helpers                                   *)

None == [some |-> FALSE]
Some(x) == [some |-> TRUE, v |-> x]

\* u8::is_ascii_whitespace: space, \t, \n, form feed, \r
is_ascii_whitespace(ch) == ch \in {32, 9, 10, 12, 13}

\* u8::to_ascii_lowercase
to_ascii_lowercase(ch) == IF ch >= 65 /\ ch <= 90 THEN ch + 32 ELSE ch

\* u8::to_ascii_uppercase
to_ascii_uppercase(ch) == IF ch >= 97 /\ ch <= 122 THEN ch - 32 ELSE ch

\* str::eq_ignore_ascii_case
eq_ignore_ascii_case(a, b) ==
    /\ Len(a) = Len(b)
    /\ \A i \in 1..Len(a) : to_ascii_lowercase(a[i]) = to_ascii_lowercase(b[i])

\* str::contains: pat occurs in s as a contiguous substring
contains(s, pat) ==
    \E i \in 0..(Len(s) - Len(pat)) :
        \A j \in 1..Len(pat) : s[i + j] = pat[j]

\* str::rsplit_once('.'): the text after the last '.', if there is a '.'
rsplit_once_dot(name) ==
    LET dots == {i \in 1..Len(name) : name[i] = 46}
    IN  IF dots = {} THEN None
        ELSE LET last == CHOOSE i \in dots : \A j \in dots : j <= i
             IN  Some(SubSeq(name, last + 1, Len(name)))

\* the string with every ASCII letter in upper case
Upper(s) == [i \in 1..Len(s) |-> to_ascii_uppercase(s[i])]

\* the string with its first letter in upper case
Capital(s) == [i \in 1..Len(s) |-> IF i = 1 THEN to_ascii_uppercase(s[i]) ELSE s[i]]

\* the spellings of s the inputs are drawn from
Spellings(s) == {s, Upper(s), Capital(s)}

-----------------------------------------------------------------------------
(* Already-encrypted detector: EncryptMessage::is_encrypted                *)

s_application == <<97,112,112,108,105,99,97,116,105,111,110>>
s_multipart == <<109,117,108,116,105,112,97,114,116>>
s_text == <<116,101,120,116>>
s_pkcs7_mime == <<112,107,99,115,55,45,109,105,109,101>>
s_pkcs7_signature == <<112,107,99,115,55,45,115,105,103,110,97,116,117,114,101>>
s_octet_stream == <<111,99,116,101,116,45,115,116,114,101,97,109>>
s_encrypted == <<101,110,99,114,121,112,116,101,100>>
s_plain == <<112,108,97,105,110>>
s_mixed == <<109,105,120,101,100>>
s_p7m == <<112,55,109>>
s_p7s == <<112,55,115>>
s_p7c == <<112,55,99>>
s_p7z == <<112,55,122>>
s_bin == <<98,105,110>>
s_foo == <<102,111,111>>
s_a_b == <<97,46,98>>

\* the extensions the detector lists, crypto.rs line 344
P7Extensions == {s_p7m, s_p7s, s_p7c, s_p7z}

\* ["p7m", "p7s", "p7c", "p7z"].contains(&ext): exact (case-sensitive) match
ext_listed(ext) == ext \in P7Extensions

\* the filename rule: attachment_name().map_or(false, |name| name.rsplit_once('.')...)
filename_rule(attachment_name) ==
    /\ attachment_name.some
    /\ LET ext == rsplit_once_dot(attachment_name.v)
       IN  ext.some /\ ext_listed(ext.v)

\* the same rule with "multipart/encrypted" left out
is_encrypted_types_no_multipart(main_type, sub_type) ==
    /\ eq_ignore_ascii_case(main_type, s_application)
    /\ \/ eq_ignore_ascii_case(sub_type, s_pkcs7_mime)
       \/ eq_ignore_ascii_case(sub_type, s_pkcs7_signature)

\* the rule on type and subtype alone
is_encrypted_types(main_type, sub_type) ==
    \/ /\ eq_ignore_ascii_case(main_type, s_application)
       /\ \/ eq_ignore_ascii_case(sub_type, s_pkcs7_mime)
          \/ eq_ignore_ascii_case(sub_type, s_pkcs7_signature)
    \/ /\ eq_ignore_ascii_case(main_type, s_multipart)
       /\ eq_ignore_ascii_case(sub_type, s_encrypted)

\* is_encrypted, on the top-level Content-Type and the attachment name
is_encrypted(content_type, attachment_name) ==
    /\ content_type.some
    /\ LET main_type == content_type.v.c_type
           sub_type == IF content_type.v.c_subtype.some
                       THEN content_type.v.c_subtype.v ELSE <<>>
       IN  \/ is_encrypted_types(main_type, sub_type)
           \/ /\ eq_ignore_ascii_case(main_type, s_application)
              /\ eq_ignore_ascii_case(sub_type, s_octet_stream)
              /\ filename_rule(attachment_name)

\* the inputs of the detector
DetTypes == UNION {Spellings(s) : s \in {s_application, s_multipart, s_text}}
DetSubtypes ==
    UNION {Spellings(s) : s \in {s_pkcs7_mime, s_pkcs7_signature, s_octet_stream,
                                 s_encrypted, s_plain, s_mixed}}
DetContentTypes ==
    {None} \cup {Some([c_type |-> t, c_subtype |-> st]) :
                    t \in DetTypes, st \in {None} \cup {Some(s) : s \in DetSubtypes}}
DetExtensions ==
    UNION {Spellings(s) : s \in P7Extensions \cup {s_bin}} \cup {s_p7m \o <<120>>, <<>>}
DetNames ==
    {None, Some(s_foo), Some(s_p7m)}
        \cup {Some(stem \o <<46>> \o ext) : stem \in {s_foo, s_a_b}, ext \in DetExtensions}

DetInit ==
    /\ dmsg \in [content_type : DetContentTypes, attachment_name : DetNames]
    /\ dpc = "input"
    /\ detected = FALSE

\* one call of is_encrypted on the message
Detect ==
    /\ dpc = "input"
    /\ detected' = is_encrypted(dmsg.content_type, dmsg.attachment_name)
    /\ dpc' = "done"
    /\ UNCHANGED dmsg
    /\ UNCHANGED detOthers

DetIdle == dmsg = None /\ dpc = "idle" /\ detected = FALSE

-----------------------------------------------------------------------------
(* Certificate bundle parser: try_parse_pem and try_parse_certs            *)

s_CERTIFICATE == <<67,69,82,84,73,70,73,67,65,84,69>>
s_PGP == <<80,71,80>>
s_PGP_PUBLIC_KEY_BLOCK == <<80,71,80,32,80,85,66,76,73,67,32,75,69,89,32,66,76,79,67,75>>
s_PGP_CERTIFICATE == <<80,71,80,32,67,69,82,84,73,70,73,67,65,84,69>>
s_X509_CRL == <<88,53,48,57,32,67,82,76>>
s_BEGIN == <<45,45,45,45,45,66,69,71,73,78,32>>
s_END == <<45,45,45,45,45,69,78,68,32>>
s_dashes == <<45,45,45,45,45>>
s_LF == <<10>>
s_CRLF == <<13,10>>

\* the value of a character of the base64 alphabet, -1 for any other byte
base64_value(ch) ==
    IF ch >= 65 /\ ch <= 90 THEN ch - 65
    ELSE IF ch >= 97 /\ ch <= 122 THEN ch - 71
    ELSE IF ch >= 48 /\ ch <= 57 THEN ch + 4
    ELSE IF ch = 43 THEN 62
    ELSE IF ch = 47 THEN 63
    ELSE -1

\* the bytes a group of pending 6-bit values stands for (4 values: 3 bytes,
\* 3 values: 2 bytes, 2 values: 1 byte)
base64_bytes(q) ==
    LET n == IF Len(q) = 4 THEN ((q[1] * 64 + q[2]) * 64 + q[3]) * 64 + q[4]
             ELSE IF Len(q) = 3 THEN ((q[1] * 64 + q[2]) * 64 + q[3]) * 64
             ELSE IF Len(q) = 2 THEN (q[1] * 64 + q[2]) * 4096
             ELSE 0
        all == <<n \div 65536, (n \div 256) % 256, n % 256>>
    IN  IF Len(q) = 4 THEN all
        ELSE IF Len(q) = 3 THEN SubSeq(all, 1, 2)
        ELSE IF Len(q) = 2 THEN SubSeq(all, 1, 1)
        ELSE <<>>

RECURSIVE base64_scan(_, _, _, _)
\* the decoder's loop over buf from index i: q the pending values, out the bytes
base64_scan(buf, i, q, out) ==
    IF i > Len(buf) THEN Some(out)
    ELSE LET ch == buf[i]
         IN  IF base64_value(ch) >= 0
             THEN IF Len(q) = 3
                  THEN base64_scan(buf, i + 1, <<>>,
                                   out \o base64_bytes(Append(q, base64_value(ch))))
                  ELSE base64_scan(buf, i + 1, Append(q, base64_value(ch)), out)
             ELSE IF ch = 61
             THEN base64_scan(buf, i + 1, <<>>, out \o base64_bytes(q))
             ELSE IF is_ascii_whitespace(ch)
             THEN base64_scan(buf, i + 1, q, out)
             ELSE None

\* mail_parser::decoders::base64::base64_decode: Option<Vec<u8>>
base64_decode(buf) == base64_scan(buf, 1, <<>>, <<>>)

\* rasn::der::decode::<rasn_pkix::Certificate>(bytes).is_ok(): the bytes open
\* with a DER SEQUENCE (tag 0x30) whose stated length fits in what follows
is_x509(bytes) ==
    /\ Len(bytes) >= 2
    /\ bytes[1] = 48
    /\ bytes[2] <= Len(bytes) - 2

\* SignedPublicKey::from_bytes(bytes).is_ok(): the bytes open with a
\* public-key packet (old format tag 0x99 or new format tag 0xC6)
is_pgp_key(bytes) ==
    /\ Len(bytes) >= 2
    /\ bytes[1] \in {153, 198}

\* a validation that accepts every decoded block
validates_always(method, cert) == TRUE

\* the validation of a decoded block under the method of its tag
validates(method, cert) ==
    IF method = "PGP" THEN is_pgp_key(cert) ELSE is_x509(cert)

RECURSIVE find_start(_, _)
\* "Find start of PEM block": skip whitespace up to the first '-'
find_start(bytes, i) ==
    IF i > Len(bytes) THEN [kind |-> "exhausted", pos |-> i]
    ELSE IF is_ascii_whitespace(bytes[i]) THEN find_start(bytes, i + 1)
    ELSE IF bytes[i] = 45 THEN [kind |-> "dash", pos |-> i + 1]
    ELSE [kind |-> "other", pos |-> i]

RECURSIVE read_tag(_, _, _)
\* "Find block type": the upper-cased line, dashes dropped, up to '\n'
read_tag(bytes, i, buf) ==
    IF i > Len(bytes) THEN [ascii |-> TRUE, pos |-> i, buf |-> buf]
    ELSE IF bytes[i] = 45 THEN read_tag(bytes, i + 1, buf)
    ELSE IF bytes[i] = 10 THEN [ascii |-> TRUE, pos |-> i + 1, buf |-> buf]
    ELSE IF bytes[i] < 128
    THEN read_tag(bytes, i + 1, Append(buf, to_ascii_uppercase(bytes[i])))
    ELSE [ascii |-> FALSE, pos |-> i, buf |-> buf]

RECURSIVE skip_block(_, _, _)
\* "Ignore block": consume up to the first '\n' that follows a '-'
skip_block(bytes, i, found_end) ==
    IF i > Len(bytes) THEN i
    ELSE IF bytes[i] = 45 THEN skip_block(bytes, i + 1, TRUE)
    ELSE IF bytes[i] = 10 /\ found_end THEN i + 1
    ELSE skip_block(bytes, i + 1, found_end)

RECURSIVE collect_base64(_, _, _, _)
\* "Collect base64": every byte that is not '-', '\n' or whitespace is pushed,
\* up to the first '\n' that follows a '-'
collect_base64(bytes, i, found_end, buf) ==
    IF i > Len(bytes) THEN [pos |-> i, buf |-> buf]
    ELSE IF bytes[i] = 45 THEN collect_base64(bytes, i + 1, TRUE, buf)
    ELSE IF bytes[i] = 10
    THEN IF found_end THEN [pos |-> i + 1, buf |-> buf]
         ELSE collect_base64(bytes, i + 1, found_end, buf)
    ELSE IF ~is_ascii_whitespace(bytes[i])
    THEN collect_base64(bytes, i + 1, found_end, Append(buf, bytes[i]))
    ELSE collect_base64(bytes, i + 1, found_end, buf)

\* "Find type", ignoring the method seen so far: a tag with CERTIFICATE is
\* S/MIME, else a tag with PGP is PGP, else the block is ignored
classify(tag) ==
    IF contains(tag, s_CERTIFICATE) THEN "SMIME"
    ELSE IF contains(tag, s_PGP) THEN "PGP"
    ELSE "ignore"

\* a check that lets a bundle change method
mixes_never(method, kind) == FALSE

\* the check of a classified block against the method of the blocks before it
mixes(method, kind) == method.some /\ method.v # kind

PemErr(msg) == [tag |-> "err", err |-> msg]
PemNone == [tag |-> "none"]
PemSome(method, certs) == [tag |-> "some", method |-> method, certs |-> certs]

RECURSIVE pem_loop(_, _, _, _)
\* the loop of try_parse_pem from position i, with the method and certs so far
pem_loop(bytes, i, method, certs) ==
    LET done == IF method.some THEN PemSome(method.v, certs) ELSE PemNone
        start == find_start(bytes, i)
    IN  IF start.kind = "other" THEN PemNone
        ELSE LET t == read_tag(bytes, start.pos, <<>>)
             IN  IF ~t.ascii THEN PemNone
                 ELSE IF t.buf = <<>> THEN done
                 ELSE LET kind == classify(t.buf)
                      IN  IF kind = "ignore"
                          THEN pem_loop(bytes, skip_block(bytes, t.pos, FALSE),
                                        method, certs)
                          ELSE IF mixes(method, kind)
                          THEN PemErr("Cannot mix PGP and S/MIME certificates")
                          ELSE LET b == collect_base64(bytes, t.pos, FALSE, <<>>)
                                   cert == base64_decode(b.buf)
                               IN  IF ~cert.some
                                   THEN PemErr("Failed to decode base64 certificate.")
                                   ELSE IF ~validates(kind, cert.v)
                                   THEN IF kind = "PGP"
                                        THEN PemErr("Failed to decode PGP public key")
                                        ELSE PemErr("Failed to decode X509 certificate")
                                   ELSE pem_loop(bytes, b.pos, Some(kind),
                                                 Append(certs, cert.v))

\* try_parse_pem: Result<Option<(EncryptionMethod, Vec<Vec<u8>>)>, String>
try_parse_pem(bytes) == pem_loop(bytes, 1, None, <<>>)

Ok(method, certs) == [ok |-> TRUE, method |-> method, certs |-> certs]
Err(msg) == [ok |-> FALSE, err |-> msg]

\* try_parse_certs with the raw DER attempt left out
try_parse_certs_no_der(bytes) ==
    LET pem == try_parse_pem(bytes)
    IN  IF pem.tag = "err" THEN Err(pem.err)
        ELSE IF pem.tag = "some" THEN Ok(pem.method, pem.certs)
        ELSE IF is_pgp_key(bytes) THEN Ok("PGP", <<bytes>>)
        ELSE Err("Could not find any valid certificates")

\* try_parse_certs: Result<(EncryptionMethod, Vec<Vec<u8>>), String>
try_parse_certs(bytes) ==
    LET pem == try_parse_pem(bytes)
    IN  IF pem.tag = "err" THEN Err(pem.err)
        ELSE IF pem.tag = "some" THEN Ok(pem.method, pem.certs)
        ELSE IF is_x509(bytes) THEN Ok("SMIME", <<bytes>>)
        ELSE IF is_pgp_key(bytes) THEN Ok("PGP", <<bytes>>)
        ELSE Err("Could not find any valid certificates")

-----------------------------------------------------------------------------
(* The form handler's use of the parsed bundle: validate_form, lines 613-630 *)

Encryptions == {"pgp-256", "pgp-128", "smime-256", "smime-128"}

\* the algorithm of the (encryption, method) pair, None when they disagree
match_algo(enc, method) ==
    IF enc = "pgp-256" /\ method = "PGP" THEN Some("Aes256")
    ELSE IF enc = "pgp-128" /\ method = "PGP" THEN Some("Aes128")
    ELSE IF enc = "smime-256" /\ method = "SMIME" THEN Some("Aes256")
    ELSE IF enc = "smime-128" /\ method = "SMIME" THEN Some("Aes128")
    ELSE None

\* the EncryptionParams record
EncryptionParams(method, algo, certs) ==
    [method |-> method, algo |-> algo, certs |-> certs]

\* the params validate_form builds from the result of try_parse_certs
build_params(enc, method, certs) ==
    LET algo == match_algo(enc, method)
    IN  IF algo.some
        THEN [ok |-> TRUE, params |-> EncryptionParams(method, algo.v, certs)]
        ELSE Err("No valid certificates found for the selected encryption")

-----------------------------------------------------------------------------
(* Inputs of the bundle parser                                             *)

\* the most armored blocks in one blob
MaxBlocks == 3

b64_x509 == <<77,65,69,65>>
b64_pgp == <<109,81,69,65>>
b64_other == <<65,65,65,65>>
b64_x509_padded == <<77,65,69,61>>

\* the blocks blobs are made of: a tag and a base64 body
BlockKinds ==
    {[tag |-> s_CERTIFICATE, body |-> b64_x509],
     [tag |-> s_CERTIFICATE, body |-> b64_other],
     [tag |-> s_PGP_PUBLIC_KEY_BLOCK, body |-> b64_pgp],
     [tag |-> s_PGP_PUBLIC_KEY_BLOCK, body |-> b64_other],
     [tag |-> s_PGP_CERTIFICATE, body |-> b64_x509],
     [tag |-> s_X509_CRL, body |-> b64_other]}

\* one armored block: BEGIN line, body, END line
Armor(b, eol) ==
    s_BEGIN \o b.tag \o s_dashes \o eol \o b.body \o eol
        \o s_END \o b.tag \o s_dashes \o eol

RECURSIVE ArmorAll(_, _)
ArmorAll(blocks, eol) ==
    IF blocks = <<>> THEN <<>>
    ELSE Armor(Head(blocks), eol) \o ArmorAll(Tail(blocks), eol)

BlockX509 == [tag |-> s_CERTIFICATE, body |-> b64_x509]
BlockPgp == [tag |-> s_PGP_PUBLIC_KEY_BLOCK, body |-> b64_pgp]

\* blobs that are not a plain run of armored blocks
OtherBlobs ==
    << <<>>,                                          \* empty
       <<32, 10, 9>>,                                 \* whitespace only
       s_BEGIN \o s_CERTIFICATE \o s_dashes \o s_LF,  \* truncated after BEGIN
       s_BEGIN \o s_CERTIFICATE,                      \* truncated in the tag
       s_dashes \o s_LF,                              \* dashes only
       <<104,101,108,108,111>>,                       \* text that is no PEM
       <<48, 1, 0>>,                                  \* raw DER certificate
       <<153, 1, 0>>,                                 \* raw OpenPGP key
       <<198, 1, 0>>,                                 \* raw OpenPGP key, new format
       <<0, 0>>,                                      \* raw bytes of neither kind
       <<48>>,                                        \* truncated DER
       Armor(BlockX509, s_LF) \o <<120>>,             \* block, then text
       <<32, 10>> \o Armor(BlockX509, s_LF),          \* whitespace, then block
       Armor(BlockX509, s_CRLF),                      \* CRLF line ends
       Armor(BlockPgp, s_CRLF) \o Armor(BlockPgp, s_CRLF),
       s_BEGIN \o s_CERTIFICATE \o s_dashes \o s_LF \o b64_x509 \o s_LF
           \o s_END \o s_CERTIFICATE \o s_dashes,      \* no final newline
       s_BEGIN \o <<200>> \o s_dashes \o s_LF,         \* non-ASCII tag
       Armor([tag |-> s_CERTIFICATE, body |-> <<33,33,33,33>>], s_LF),
       Armor([tag |-> s_CERTIFICATE, body |-> b64_x509_padded], s_LF),
       Armor([tag |-> s_CERTIFICATE, body |-> <<>>], s_LF),
       Armor([tag |-> <<99,101,114,116,105,102,105,99,97,116,101>>,
              body |-> b64_x509], s_LF) >>            \* lower-case tag

Shapes ==
    {[kind |-> "pem", blocks |-> bs] :
        bs \in UNION {[1..k -> BlockKinds] : k \in 1..MaxBlocks}}
    \cup {[kind |-> "other", n |-> n] : n \in 1..Len(OtherBlobs)}

BlobOf(sh) ==
    IF sh.kind = "pem" THEN ArmorAll(sh.blocks, s_LF) ELSE OtherBlobs[sh.n]

CertInit ==
    /\ shape \in Shapes
    /\ blob = BlobOf(shape)
    /\ cpc = "input"
    /\ parsed = None
    /\ encryption = "unset"
    /\ built = None

\* try_parse_certs(certificate), validate_form line 614
ParseCerts ==
    /\ cpc = "input"
    /\ parsed' = try_parse_certs(blob)
    /\ cpc' = "parsed"
    /\ UNCHANGED <<blob, shape, encryption, built>>
    /\ UNCHANGED certOthers

\* validate_form lines 615-630, reached when try_parse_certs returned Ok
BuildParams ==
    /\ cpc = "parsed"
    /\ parsed.ok
    /\ \E enc \in Encryptions :
        /\ encryption' = enc
        /\ built' = build_params(enc, parsed.method, parsed.certs)
    /\ cpc' = "built"
    /\ UNCHANGED <<blob, shape, parsed>>
    /\ UNCHANGED certOthers

CertIdle ==
    /\ shape = None /\ blob = <<>> /\ cpc = "idle" /\ parsed = None
    /\ encryption = "unset" /\ built = None

-----------------------------------------------------------------------------
(* Encryption parameters store: Serialize / Deserialize for EncryptionParams *)
(* bincode's default encoding: little-endian fixed-width integers, a unit   *)
(* enum variant as its u32 index, a Vec as its u64 length then its elements *)

\* the little-endian bytes of n (n < 2^24) in a field of width bytes
le_bytes(n, width) ==
    [i \in 1..width |-> IF i = 1 THEN n % 256
                        ELSE IF i = 2 THEN (n \div 256) % 256
                        ELSE IF i = 3 THEN (n \div 65536) % 256
                        ELSE 0]

\* a fixed-width unsigned integer as bincode writes it
encode_uint(n, width) == le_bytes(n, width)

\* the variant index of an enum value, in declaration order (lines 65-74)
variant_index(v) == IF v \in {"PGP", "Aes128"} THEN 0 ELSE 1

encode_bytes(b) == encode_uint(Len(b), 8) \o b

RECURSIVE encode_certs(_)
encode_certs(certs) ==
    IF certs = <<>> THEN <<>>
    ELSE encode_bytes(Head(certs)) \o encode_certs(Tail(certs))

\* bincode::serialize_into(&mut buf, &self): method, algo, certs
bincode_serialize(p) ==
    encode_uint(variant_index(p.method), 4)
        \o encode_uint(variant_index(p.algo), 4)
        \o encode_uint(Len(p.certs), 8)
        \o encode_certs(p.certs)

\* the version byte serialize pushes first, line 503
VERSION == 1

\* serialize with the version byte left out
serialize_no_version(p) == bincode_serialize(p)

\* Serialize for EncryptionParams
serialize(p) == <<VERSION>> \o bincode_serialize(p)

\* a fixed-width integer read at offset i (1-based): None at end of input;
\* a value that does not fit in three bytes is reported as 2^24, which is
\* more than any input holds
decode_uint(b, i, width) ==
    IF i + width - 1 > Len(b) THEN None
    ELSE IF \E k \in 3..(width - 1) : b[i + k] # 0 THEN Some(16777216)
    ELSE Some(b[i] + 256 * b[i + 1] + 65536 * b[i + 2])

RECURSIVE decode_certs(_, _, _, _)
\* n more byte arrays read from offset i; the input may hold more after them
decode_certs(b, i, n, acc) ==
    IF n = 0 THEN Some(acc)
    ELSE LET len == decode_uint(b, i, 8)
         IN  IF ~len.some THEN None
             ELSE IF i + 8 + len.v - 1 > Len(b) THEN None
             ELSE decode_certs(b, i + 8 + len.v, n - 1,
                               Append(acc, SubSeq(b, i + 8, i + 8 + len.v - 1)))

\* bincode::deserialize::<EncryptionParams>(bytes)
bincode_deserialize(b) ==
    LET m == decode_uint(b, 1, 4)
        a == decode_uint(b, 5, 4)
        n == decode_uint(b, 9, 8)
    IN  IF ~m.some \/ ~a.some \/ ~n.some THEN None
        ELSE IF m.v > 1 \/ a.v > 1 THEN None
        ELSE LET certs == decode_certs(b, 17, n.v, <<>>)
             IN  IF ~certs.some THEN None
                 ELSE Some(EncryptionParams(IF m.v = 0 THEN "PGP" ELSE "SMIME",
                                            IF a.v = 0 THEN "Aes128" ELSE "Aes256",
                                            certs.v))

\* a test that accepts every version byte
version_any(bytes) == Len(bytes) > 1

\* the test deserialize makes of the version byte before it decodes, line 517
version_known(bytes) == bytes[1] = VERSION /\ Len(bytes) > 1

\* Deserialize for EncryptionParams
deserialize(bytes) ==
    IF bytes = <<>>
    THEN Err("Failed to read version while deserializing encryption params")
    ELSE IF version_known(bytes)
    THEN LET p == bincode_deserialize(SubSeq(bytes, 2, Len(bytes)))
         IN  IF p.some THEN [ok |-> TRUE, params |-> p.v]
             ELSE Err("Failed to deserialize encryption params")
    ELSE Err("Unknown encryption params version")

\* the most keys in a record given to serialize
MaxCerts == 2

StoreKeys == {<<48, 1, 0>>, <<153, 1, 0>>, <<7>>}

StoreRecords ==
    {EncryptionParams(m, a, c) :
        m \in {"PGP", "SMIME"}, a \in {"Aes128", "Aes256"},
        c \in UNION {[1..k -> StoreKeys] : k \in 1..MaxCerts}}

StoreInit ==
    /\ rec \in StoreRecords
    /\ wire = <<>>
    /\ ppc = "input"
    /\ decoded = None

\* serialize(rec): the value bytes written to the store
Serialize ==
    /\ ppc = "input"
    /\ wire' = serialize(rec)
    /\ ppc' = "serialized"
    /\ UNCHANGED <<rec, decoded>>
    /\ UNCHANGED storeOthers

\* the stored bytes are not the ones serialize wrote: one byte of them is
\* changed, or they are cut short
Damage ==
    /\ ppc = "serialized"
    /\ \/ \E i \in 1..Len(wire), d \in {1, 255} :
            wire' = [wire EXCEPT ![i] = (wire[i] + d) % 256]
       \/ \E k \in 0..(Len(wire) - 1) : wire' = SubSeq(wire, 1, k)
    /\ ppc' = "damaged"
    /\ UNCHANGED <<rec, decoded>>
    /\ UNCHANGED storeOthers

\* deserialize(wire): the value bytes read back from the store
Deserialize ==
    /\ ppc \in {"serialized", "damaged"}
    /\ decoded' = deserialize(wire)
    /\ ppc' = IF ppc = "serialized" THEN "done" ELSE "done_damaged"
    /\ UNCHANGED <<rec, wire>>
    /\ UNCHANGED storeOthers

StoreIdle == rec = None /\ wire = <<>> /\ ppc = "idle" /\ decoded = None

-----------------------------------------------------------------------------
(* Message splitter and encrypt orchestrator: EncryptMessage::encrypt      *)
(*                                                                         *)
(* A parsed message is [headers, body]: the root part's header lines in    *)
(* their original order, each the byte span offset_field()..offset_end()   *)
(* of the raw message, and the raw body from raw_body_offset().  A buffer  *)
(* is a sequence of chunks: header lines, the CRLF chunk, a body chunk.    *)

Header(name, value) == [name |-> name, value |-> value]
CRLF == [crlf |-> TRUE]
BodyChunk(b) == [body |-> b]
PlainBody(t) == [kind |-> "plain", text |-> t]

\* the header names the splitter moves to the inner message
MimeHeaderNames ==
    {"Content-Type", "Content-Transfer-Encoding", "Content-Disposition",
     "Content-ID", "Content-Description", "MIME-Version"}

\* HeaderName::is_mime_header
is_mime_header(name) == name \in MimeHeaderNames

v_pgp_encrypted == "multipart/encrypted; protocol=\"application/pgp-encrypted\"; boundary=B"
v_pkcs7_mime == "application/pkcs7-mime; name=\"smime.p7m\"; smime-type=enveloped-data"

\* Message::content_type of a header value: type and subtype
content_type_of(value) ==
    IF value = "text/plain"
    THEN [c_type |-> s_text, c_subtype |-> Some(s_plain)]
    ELSE IF value = "multipart/mixed; boundary=x"
    THEN [c_type |-> s_multipart, c_subtype |-> Some(s_mixed)]
    ELSE IF value \in {"multipart/encrypted; boundary=x", v_pgp_encrypted}
    THEN [c_type |-> s_multipart, c_subtype |-> Some(s_encrypted)]
    ELSE IF value = v_pkcs7_mime
    THEN [c_type |-> s_application, c_subtype |-> Some(s_pkcs7_mime)]
    ELSE IF value = "APPLICATION/PKCS7-SIGNATURE"
    THEN [c_type |-> Upper(s_application), c_subtype |-> Some(Upper(s_pkcs7_signature))]
    ELSE IF value = "application/octet-stream; name=\"foo.p7m\""
    THEN [c_type |-> s_application, c_subtype |-> Some(s_octet_stream)]
    ELSE [c_type |-> s_text, c_subtype |-> None]

\* Message::attachment_name of a Content-Type value
attachment_name_of(value) ==
    IF value = "application/octet-stream; name=\"foo.p7m\""
    THEN Some(s_foo \o <<46>> \o s_p7m)
    ELSE None

\* Message::content_type: the root part's Content-Type header, if any
content_type(m) ==
    LET at == {i \in 1..Len(m.headers) : m.headers[i].name = "Content-Type"}
    IN  IF at = {} THEN None
        ELSE Some(content_type_of(m.headers[CHOOSE i \in at : \A j \in at : i <= j].value))

\* Message::attachment_name
attachment_name(m) ==
    LET at == {i \in 1..Len(m.headers) : m.headers[i].name = "Content-Type"}
    IN  IF at = {} THEN None
        ELSE attachment_name_of(m.headers[CHOOSE i \in at : \A j \in at : i <= j].value)

\* self.is_encrypted() of a parsed message
message_is_encrypted(m) == is_encrypted(content_type(m), attachment_name(m))

\* the headers of hs that satisfy / do not satisfy is_mime_header, in order
mime_headers(hs) == SelectSeq(hs, LAMBDA h : is_mime_header(h.name))
other_headers(hs) == SelectSeq(hs, LAMBDA h : ~is_mime_header(h.name))

\* a loop that sends every header to the outer buffer
goes_inner_never(h) == FALSE

\* the destination of one header in the loop of lines 98-105
goes_inner(h) == is_mime_header(h.name)

RECURSIVE split_headers(_, _, _)
\* the loop of lines 98-105: each header's bytes go to one of the two buffers
split_headers(hs, inner, outer) ==
    IF hs = <<>> THEN [inner |-> inner, outer |-> outer]
    ELSE IF goes_inner(Head(hs))
    THEN split_headers(Tail(hs), Append(inner, Head(hs)), outer)
    ELSE split_headers(Tail(hs), inner, Append(outer, Head(hs)))

\* Message::parse of the bytes encrypt returned: headers up to the first
\* empty line, the rest is the body
parse_message(chunks) ==
    LET at == {i \in 1..Len(chunks) : chunks[i] = CRLF}
        sep == CHOOSE i \in at : \A j \in at : i <= j
    IN  [headers |-> SubSeq(chunks, 1, sep - 1), body |-> chunks[sep + 1].body]

\* RsaPublicKey::from_pkcs1_der of the certificate's subjectPublicKey: the
\* third byte of a model certificate says what key it carries
has_rsa_key(cert) == cert[3] \in {0, 2}

\* public_key.encrypt(rng, Pkcs1v15Encrypt, key): fails when the modulus is
\* too short for the symmetric key
rsa_can_wrap(cert) == cert[3] = 0

\* issuer and serial number of the certificate's TBS
issuer_and_serial(cert) == cert[4]

\* encrypt_to_keys: fails for a key that has no encryption-capable (sub)key
pgp_can_encrypt(key) == key[3] = 0

EncOk(chunks) == [tag |-> "Ok", bytes |-> chunks]
EncError(msg) == [tag |-> "Error", msg |-> msg]
EncAlreadyEncrypted == [tag |-> "AlreadyEncrypted"]
EncPanic == [tag |-> "panic"]
EncNone == [tag |-> "none"]

\* the most headers in the root part of an input message
MaxHeaders == 3

\* the most recipient keys in the params of a call
MaxRecipients == 2

\* how many times the output of a call is parsed and encrypted again
MaxRounds == 1

EncHeaderPool ==
    {Header("From", "a"), Header("Received", "x"), Header("MIME-Version", "1.0"),
     Header("Content-Type", "text/plain"),
     Header("Content-Type", "multipart/encrypted; boundary=x"),
     Header("Content-Type", "APPLICATION/PKCS7-SIGNATURE"),
     Header("Content-Type", "application/octet-stream; name=\"foo.p7m\"")}

\* messages with every arrangement of up to MaxHeaders headers, at most one
\* of them a Content-Type
RichMessages ==
    {[headers |-> hs, body |-> PlainBody("Body")] :
        hs \in {h \in UNION {[1..k -> EncHeaderPool] : k \in 0..MaxHeaders} :
                   Cardinality({i \in DOMAIN h : h[i].name = "Content-Type"}) <= 1}}

FewMessages ==
    {[headers |-> <<Header("Subject", "test")>>, body |-> PlainBody("test")],
     [headers |-> <<Header("From", "a"), Header("Content-Type", "text/plain"),
                    Header("MIME-Version", "1.0")>>, body |-> PlainBody("Body")],
     [headers |-> <<Header("Content-Type", "multipart/encrypted; boundary=x")>>,
      body |-> PlainBody("Body")]}

\* model certificates <<0x30, 3, key, issuer-and-serial, id>> and model
\* OpenPGP keys <<0x99, 1, key>>
cert_rsa_a == <<48, 3, 0, 1, 1>>
cert_rsa_b == <<48, 3, 0, 2, 2>>
cert_rsa_a2 == <<48, 3, 0, 1, 3>>
cert_ec == <<48, 3, 1, 3, 4>>
cert_rsa_short == <<48, 3, 2, 4, 5>>
pgp_key_a == <<153, 1, 0>>
pgp_key_b == <<198, 1, 0>>
pgp_key_sign_only == <<153, 1, 1>>

EncKeys == {cert_rsa_a, cert_rsa_b, cert_rsa_a2, cert_ec, cert_rsa_short,
            pgp_key_a, pgp_key_b, pgp_key_sign_only}

RichParams ==
    {EncryptionParams(m, a, c) :
        m \in {"PGP", "SMIME"}, a \in {"Aes128", "Aes256"},
        c \in UNION {[1..k -> EncKeys] : k \in 1..MaxRecipients}}

FewParams ==
    {EncryptionParams("PGP", "Aes128", <<pgp_key_a>>),
     EncryptionParams("SMIME", "Aes256", <<cert_rsa_a>>)}

EncInit ==
    /\ \/ emsg \in RichMessages /\ params \in FewParams
       \/ emsg \in FewMessages /\ params \in RichParams
    /\ epc = "call"
    /\ outer_message = <<>>
    /\ inner_message = <<>>
    /\ work = None
    /\ result = EncNone
    /\ round = 0
    /\ ran = {}

\* a step of the call and the thread it ran on: the task of the cooperative
\* scheduler that polls the future, or the thread spawn_blocking hands the
\* closure to
Ran(step, on) == [step |-> step, on |-> on]

\* lines 92-107: the headers are split, then CRLF and the raw body follow
\* the MIME headers in the inner message
EncryptSplit ==
    /\ epc = "call"
    /\ LET sp == split_headers(emsg.headers, <<>>, <<>>)
       IN  /\ outer_message' = sp.outer
           /\ inner_message' = sp.inner \o <<CRLF, BodyChunk(emsg.body)>>
    /\ epc' = "split"
    /\ ran' = ran \cup {Ran("split", "scheduler")}
    /\ UNCHANGED <<emsg, params, work, result, round>>
    /\ UNCHANGED encOthers

\* the call returns r
Return(r) ==
    /\ result' = r
    /\ epc' = "done"
    /\ UNCHANGED <<emsg, params, round>>

\* lines 111-157: the head of the multipart/encrypted envelope is appended
\* and every recipient key is parsed
PgpPrepare ==
    /\ epc = "split"
    /\ params.method = "PGP"
    /\ outer_message' = outer_message \o <<Header("Content-Type", v_pgp_encrypted), CRLF>>
    /\ IF \E i \in DOMAIN params.certs : ~is_pgp_key(params.certs[i])
       THEN /\ Return(EncError("Failed to parse PGP public key"))
            /\ UNCHANGED <<inner_message, work>>
       ELSE /\ work' = [keys |-> params.certs]
            /\ epc' = "pgp_worker"
            /\ UNCHANGED <<emsg, params, inner_message, result, round>>
    /\ ran' = ran \cup {Ran("pgp_key_parse", "scheduler")}
    /\ UNCHANGED encOthers

\* lines 160-188: the blocking task encrypts the inner message to the keys
\* and armors it; the call awaits it
PgpWorker ==
    /\ epc = "pgp_worker"
    /\ \/ /\ Return(EncError("Failed to encrypt message"))     \* the task failed
          /\ UNCHANGED <<outer_message, inner_message, work>>
       \/ /\ \E i \in DOMAIN work.keys : ~pgp_can_encrypt(work.keys[i])
          /\ Return(EncError("Failed to encrypt message"))
          /\ UNCHANGED <<outer_message, inner_message, work>>
       \/ /\ \A i \in DOMAIN work.keys : pgp_can_encrypt(work.keys[i])
          /\ Return(EncError("Failed to convert to armored string"))
          /\ UNCHANGED <<outer_message, inner_message, work>>
       \/ /\ \A i \in DOMAIN work.keys : pgp_can_encrypt(work.keys[i])
          /\ work' = [encrypted_contents |->
                        [kind |-> "pgp", recipients |-> work.keys,
                         algo |-> params.algo, plaintext |-> inner_message]]
          /\ epc' = "pgp_finish"
          /\ UNCHANGED <<emsg, params, outer_message, inner_message, result, round>>
    /\ ran' = ran \cup {Ran("pgp_encrypt", "worker"), Ran("pgp_armor", "worker")}
    /\ UNCHANGED encOthers

\* lines 189-192 and 326: the armored text and the closing boundary
PgpFinish ==
    /\ epc = "pgp_finish"
    /\ outer_message' = Append(outer_message, BodyChunk(work.encrypted_contents))
    /\ Return(EncOk(outer_message'))
    /\ ran' = ran \cup {Ran("pgp_finish", "scheduler")}
    /\ UNCHANGED <<inner_message, work>>
    /\ UNCHANGED encOthers

\* lines 195-212: IV and key are drawn, the blocking task encrypts the inner
\* message with AES-CBC; the call awaits it
SmimeWorker ==
    /\ epc = "split"
    /\ params.method = "SMIME"
    /\ \/ /\ Return(EncError("Failed to encrypt message"))     \* the task failed
          /\ UNCHANGED <<outer_message, inner_message, work>>
       \/ /\ work' = [encrypted_contents |->
                        [algo |-> params.algo, plaintext |-> inner_message]]
          /\ epc' = "smime_wrap"
          /\ UNCHANGED <<emsg, params, outer_message, inner_message, result, round>>
    /\ ran' = ran \cup {Ran("aes_cbc", "worker")}
    /\ UNCHANGED encOthers

\* a recipient info that carries the recipient identifier alone
RecipientInfo_rid_only(cert, pad) ==
    [rid |-> issuer_and_serial(cert), encrypted_key |-> <<0, 0>>]

\* one KeyTransRecipientInfo: the recipient identifier and the wrapped key;
\* the wrapping is randomised, pad stands for the padding drawn for it
RecipientInfo(cert, pad) ==
    [rid |-> issuer_and_serial(cert), encrypted_key |-> <<cert[5], pad>>]

\* the paddings the rng can give to one PKCS#1 v1.5 wrapping of the key
Pads == {0, 1}

RECURSIVE wrap_keys(_, _, _, _)
\* the loop of lines 217-267 from certificate i on, infos the BTreeSet so
\* far, pads[i] the padding the rng gives to the wrapping for certificate i
wrap_keys(certs, pads, i, infos) ==
    IF i > Len(certs) THEN [tag |-> "Ok", infos |-> infos]
    ELSE IF ~is_x509(certs[i]) THEN EncError("Failed to parse certificate")
    ELSE IF ~has_rsa_key(certs[i]) THEN EncError("Failed to parse public key")
    ELSE IF ~rsa_can_wrap(certs[i]) THEN EncPanic
    ELSE wrap_keys(certs, pads, i + 1, infos \cup {RecipientInfo(certs[i], pads[i])})

\* lines 214-267: the symmetric key is wrapped for every certificate
SmimeWrapKeys ==
    /\ epc = "smime_wrap"
    /\ \E pads \in [DOMAIN params.certs -> Pads] :
       LET w == wrap_keys(params.certs, pads, 1, {})
       IN  IF w.tag = "Ok"
           THEN /\ work' = [encrypted_contents |-> work.encrypted_contents,
                            recipient_infos |-> w.infos]
                /\ epc' = "smime_encode"
                /\ UNCHANGED <<emsg, params, result, round>>
           ELSE /\ Return(w)
                /\ UNCHANGED work
    /\ ran' = ran \cup {Ran("rsa_wrap", "scheduler")}
    /\ UNCHANGED <<outer_message, inner_message>>
    /\ UNCHANGED encOthers

\* lines 269-306: EnvelopedData and ContentInfo are DER-encoded
SmimeEncode ==
    /\ epc = "smime_encode"
    /\ \/ \E msg \in {"Failed to encode IV", "Failed to encode EnvelopedData",
                      "Failed to encode ContentInfo"} :
            /\ Return(EncError(msg))
            /\ UNCHANGED work
       \/ /\ work' = [pkcs7 |->
                        [kind |-> "pkcs7",
                         recipient_infos |-> work.recipient_infos,
                         algo |-> work.encrypted_contents.algo,
                         plaintext |-> work.encrypted_contents.plaintext]]
          /\ epc' = "smime_emit"
          /\ UNCHANGED <<emsg, params, result, round>>
    /\ ran' = ran \cup {Ran("der_encode", "scheduler")}
    /\ UNCHANGED <<outer_message, inner_message>>
    /\ UNCHANGED encOthers

\* lines 308-326: the application/pkcs7-mime headers and the base64 text
SmimeEmit ==
    /\ epc = "smime_emit"
    /\ outer_message' =
          outer_message \o
             <<Header("Content-Type", v_pkcs7_mime),
               Header("Content-Disposition", "attachment; filename=\"smime.p7m\""),
               Header("Content-Transfer-Encoding", "base64"),
               CRLF, BodyChunk(work.pkcs7)>>
    /\ \/ Return(EncError("Failed to base64 encode PKCS7"))
       \/ Return(EncOk(outer_message'))
    /\ ran' = ran \cup {Ran("base64_encode", "scheduler")}
    /\ UNCHANGED <<inner_message, work>>
    /\ UNCHANGED encOthers

\* the bytes a call returned are parsed and encrypted again, same params
FeedBack ==
    /\ epc = "done"
    /\ result.tag = "Ok"
    /\ round < MaxRounds
    /\ emsg' = parse_message(result.bytes)
    /\ epc' = "call"
    /\ outer_message' = <<>>
    /\ inner_message' = <<>>
    /\ work' = None
    /\ result' = EncNone
    /\ round' = round + 1
    /\ ran' = {}
    /\ UNCHANGED params
    /\ UNCHANGED encOthers

EncIdle ==
    /\ emsg = None /\ params = None /\ epc = "idle" /\ outer_message = <<>>
    /\ inner_message = <<>> /\ work = None /\ result = EncNone /\ round = 0
    /\ ran = {}

-----------------------------------------------------------------------------
(* The form endpoint: validate_form, lines 594-669                         *)

\* the principals and their passwords
Accounts == {"alice", "bob"}
PasswordOf == [a \in Accounts |-> IF a = "alice" THEN "pa" ELSE "pb"]

\* authenticate_plain(email, password): the token of the principal, if any
authenticate_plain(email, password) ==
    IF email \in Accounts /\ PasswordOf[email] = password THEN Some(email) ELSE None

\* the outcomes of encrypt(params) on "Subject: test\r\ntest\r\n": the
\* worker task can fail, the armoring and the encoders can fail, and the
\* keys decide the rest
encrypt_outcomes(p) ==
    IF p.method = "PGP"
    THEN IF \A i \in DOMAIN p.certs : is_pgp_key(p.certs[i]) /\ pgp_can_encrypt(p.certs[i])
         THEN {"Ok", "Error"}
         ELSE {"Error"}
    ELSE {"Error"} \cup
         UNION {LET w == wrap_keys(p.certs, pads, 1, {})
                IN  IF w.tag = "Ok" THEN {"Ok", "Error"} ELSE {w.tag} :
                   pads \in [DOMAIN p.certs -> Pads]}

\* how many submissions the endpoint receives
MaxSubmissions == 2

\* the certificate fields of the submissions: raw DER certificates, raw
\* OpenPGP keys, an armored certificate, and a blob that is no key
FormBlobs ==
    {cert_rsa_a, cert_ec, cert_rsa_short, pgp_key_a, pgp_key_sign_only,
     Armor(BlockX509, s_LF), <<104, 105>>}

FormData(certificate, email, password, enc) ==
    [certificate |-> certificate, email |-> email, password |-> password,
     encryption |-> enc]

\* submissions with good credentials, and submissions that lack a field,
\* have an empty one, a wrong password or an unknown encryption
Forms ==
    {FormData(c, Some(a), Some(PasswordOf[a]), Some(e)) :
        c \in {None, Some(<<>>)} \cup {Some(b) : b \in FormBlobs},
        a \in Accounts,
        e \in Encryptions \cup {"disable"}}
    \cup {FormData(Some(cert_rsa_a), None, Some("pa"), Some("smime-128")),
          FormData(Some(cert_rsa_a), Some("alice"), None, Some("smime-128")),
          FormData(Some(cert_rsa_a), Some("alice"), Some("pa"), None),
          FormData(Some(cert_rsa_a), Some(""), Some("pa"), Some("smime-128")),
          FormData(Some(cert_rsa_a), Some("alice"), Some(""), Some("disable")),
          FormData(Some(cert_rsa_a), Some("alice"), Some("pb"), Some("disable")),
          FormData(Some(cert_rsa_a), Some("alice"), Some("pa"), Some("aes"))}

FormOk == [tag |-> "Ok"]
FormErr(msg) == [tag |-> "Err", msg |-> msg]
FormAbort == [tag |-> "abort"]
FormNone == [tag |-> "none"]

FormInit ==
    /\ store = [a \in Accounts |-> None]
    /\ form = None
    /\ fpc = "idle"
    /\ token = "none"
    /\ fparams = None
    /\ selftest = "none"
    /\ response = FormNone
    /\ before = store
    /\ submissions = 0

\* a submission arrives at the endpoint
FormSubmit ==
    /\ fpc \in {"idle", "responded"}
    /\ submissions < MaxSubmissions
    /\ form' \in Forms
    /\ fpc' = "validate"
    /\ token' = "none"
    /\ fparams' = None
    /\ selftest' = "none"
    /\ response' = FormNone
    /\ before' = store
    /\ submissions' = submissions + 1
    /\ UNCHANGED store
    /\ UNCHANGED formOthers

\* validate_form returns r
Respond(r) ==
    /\ response' = r
    /\ fpc' = "responded"

\* lines 595-606 and 666-668: the four fields must be there, login and
\* password not empty, and the certificate not empty unless disabling
FormValidate ==
    /\ fpc = "validate"
    /\ IF ~(form.certificate.some /\ form.email.some /\ form.password.some
              /\ form.encryption.some)
       THEN Respond(FormErr("Missing form parameters"))
       ELSE IF form.email.v = "" \/ form.password.v = ""
       THEN Respond(FormErr("Please enter your login and password"))
       ELSE IF form.encryption.v # "disable" /\ form.certificate.v = <<>>
       THEN Respond(FormErr("Please select one or more certificates"))
       ELSE fpc' = "authenticate" /\ UNCHANGED response
    /\ UNCHANGED <<store, form, token, fparams, selftest, before, submissions>>
    /\ UNCHANGED formOthers

\* lines 609-613: authenticate_plain(email, password).await
FormAuthenticate ==
    /\ fpc = "authenticate"
    /\ LET t == authenticate_plain(form.email.v, form.password.v)
       IN  IF t.some
           THEN /\ token' = t.v
                /\ fpc' = IF form.encryption.v # "disable" THEN "build" ELSE "disable"
                /\ UNCHANGED response
           ELSE /\ Respond(FormErr("Invalid login or password"))
                /\ UNCHANGED token
    /\ UNCHANGED <<store, form, fparams, selftest, before, submissions>>
    /\ UNCHANGED formOthers

\* lines 614-630: the bundle is parsed and the params are built
FormBuild ==
    /\ fpc = "build"
    /\ LET r == try_parse_certs(form.certificate.v)
           b == build_params(form.encryption.v, r.method, r.certs)
       IN  IF ~r.ok
           THEN Respond(FormErr(r.err)) /\ UNCHANGED fparams
           ELSE IF ~b.ok
           THEN Respond(FormErr(b.err)) /\ UNCHANGED fparams
           ELSE fparams' = b.params /\ fpc' = "selftest" /\ UNCHANGED response
    /\ UNCHANGED <<store, form, token, selftest, before, submissions>>
    /\ UNCHANGED formOthers

\* lines 632-640: the test encryption; only Err(Error(message)) returns
FormSelfTest ==
    /\ fpc = "selftest"
    /\ \E o \in encrypt_outcomes(fparams) :
          /\ selftest' = o
          /\ IF o = "Error"
             THEN Respond(FormErr("Failed to encrypt message"))
             ELSE IF o = "panic"
             THEN Respond(FormAbort)
             ELSE fpc' = "save" /\ UNCHANGED response
    /\ UNCHANGED <<store, form, token, fparams, before, submissions>>
    /\ UNCHANGED formOthers

\* lines 642-651 and 665: the params are written for the principal
FormSave ==
    /\ fpc = "save"
    /\ \/ /\ store' = [store EXCEPT ![token] = Some(fparams)]
          /\ Respond(FormOk)
       \/ /\ Respond(FormErr("Failed to save encryption parameters, please try again later"))
          /\ UNCHANGED store
    /\ UNCHANGED <<form, token, fparams, selftest, before, submissions>>
    /\ UNCHANGED formOthers

\* lines 652-665: the params of the principal are cleared
FormDisable ==
    /\ fpc = "disable"
    /\ \/ /\ store' = [store EXCEPT ![token] = None]
          /\ Respond(FormOk)
       \/ /\ Respond(FormErr("Failed to save encryption parameters, please try again later"))
          /\ UNCHANGED store
    /\ UNCHANGED <<form, token, fparams, selftest, before, submissions>>
    /\ UNCHANGED formOthers

FormIdle ==
    /\ store = <<>> /\ form = None /\ fpc = "off" /\ token = "none"
    /\ fparams = None /\ selftest = "none" /\ response = FormNone
    /\ before = <<>> /\ submissions = 0

-----------------------------------------------------------------------------
(* Publishing ACME certificates: Server::set_cert,                         *)
(* crates/common/src/listener/acme/resolver.rs lines 24-43                 *)
(*                                                                         *)
(* tls_certificates is an ArcSwap of a map: load() and store() are each    *)
(* atomic.  Calls for different providers run on different tasks and can   *)
(* overlap.  A map is a function from the names it holds to certificates.  *)

\* how many set_cert calls are made
MaxCalls == 2

Calls == 1..MaxCalls

\* a domain of a provider: wild when it is written "*." ++ name
Domain(wild, name) == [wild |-> wild, name |-> name]

\* domain.strip_prefix("*.").unwrap_or(domain.as_str())
strip_prefix(domain) == domain.name

AcmeProvider(domains, default) == [domains |-> domains, default |-> default]

\* the providers set_cert is called for
Providers ==
    {AcmeProvider(<<Domain(FALSE, "a.org")>>, FALSE),
     AcmeProvider(<<Domain(TRUE, "b.org")>>, TRUE),
     AcmeProvider(<<Domain(FALSE, "a.org"), Domain(TRUE, "c.org")>>, FALSE),
     AcmeProvider(<<Domain(FALSE, "d.org")>>, TRUE)}

\* the map before the calls: certificate 0 is the one installed earlier
InitialCertificates == [k \in {"old.org", "a.org"} |-> 0]

\* certificates.insert(key, cert)
insert(certificates, key, cert) ==
    [k \in DOMAIN certificates \cup {key} |->
        IF k = key THEN cert ELSE certificates[k]]

RECURSIVE insert_domains(_, _, _)
\* the loop of lines 27-35
insert_domains(certificates, domains, cert) ==
    IF domains = <<>> THEN certificates
    ELSE insert_domains(insert(certificates, strip_prefix(Head(domains)), cert),
                        Tail(domains), cert)

\* lines 27-40: the provider's domains, then "*" for a default provider
insert_provider(certificates, provider, cert) ==
    LET with_domains == insert_domains(certificates, provider.domains, cert)
    IN  IF provider.default THEN insert(with_domains, "*", cert) ELSE with_domains

\* call c publishes certificate c
AcmeInit ==
    /\ tls_certificates = InitialCertificates
    /\ setcert \in [Calls -> {[provider |-> pr, pc |-> "called", certificates |-> <<>>] :
                                 pr \in Providers}]

\* line 26: the call takes its own copy of the shared map
SetCertLoad(c) ==
    /\ setcert[c].pc = "called"
    /\ setcert' = [setcert EXCEPT ![c].certificates = tls_certificates,
                                  ![c].pc = "loaded"]
    /\ UNCHANGED tls_certificates
    /\ UNCHANGED acmeOthers

\* lines 27-40: the entries are put into the copy
SetCertInsert(c) ==
    /\ setcert[c].pc = "loaded"
    /\ setcert' = [setcert EXCEPT
                      ![c].certificates =
                          insert_provider(setcert[c].certificates, setcert[c].provider, c),
                      ![c].pc = "filled"]
    /\ UNCHANGED tls_certificates
    /\ UNCHANGED acmeOthers

\* line 42: the copy replaces the shared map
SetCertStore(c) ==
    /\ setcert[c].pc = "filled"
    /\ tls_certificates' = setcert[c].certificates
    /\ setcert' = [setcert EXCEPT ![c].pc = "returned"]
    /\ UNCHANGED acmeOthers

AcmeIdle == tls_certificates = <<>> /\ setcert = <<>>

-----------------------------------------------------------------------------
(* Specifications: one per component, the other components idle           *)

InitDetect == DetInit /\ CertIdle /\ StoreIdle /\ EncIdle /\ FormIdle /\ AcmeIdle
NextDetect == Detect
SpecDetect == InitDetect /\ [][NextDetect]_vars

InitCerts == CertInit /\ DetIdle /\ StoreIdle /\ EncIdle /\ FormIdle /\ AcmeIdle
NextCerts == ParseCerts \/ BuildParams
SpecCerts == InitCerts /\ [][NextCerts]_vars

InitStore == StoreInit /\ DetIdle /\ CertIdle /\ EncIdle /\ FormIdle /\ AcmeIdle
NextStore == Serialize \/ Damage \/ Deserialize
SpecStore == InitStore /\ [][NextStore]_vars

InitEncrypt == EncInit /\ DetIdle /\ CertIdle /\ StoreIdle /\ FormIdle /\ AcmeIdle
NextEncrypt ==
    \/ EncryptSplit
    \/ PgpPrepare \/ PgpWorker \/ PgpFinish
    \/ SmimeWorker \/ SmimeWrapKeys \/ SmimeEncode \/ SmimeEmit
    \/ FeedBack
SpecEncrypt == InitEncrypt /\ [][NextEncrypt]_vars

InitForm == FormInit /\ DetIdle /\ CertIdle /\ StoreIdle /\ EncIdle /\ AcmeIdle
NextForm ==
    \/ FormSubmit \/ FormValidate \/ FormAuthenticate \/ FormBuild
    \/ FormSelfTest \/ FormSave \/ FormDisable
SpecForm == InitForm /\ [][NextForm]_vars

InitAcme == AcmeInit /\ DetIdle /\ CertIdle /\ StoreIdle /\ EncIdle /\ FormIdle
NextAcme == \E c \in Calls : SetCertLoad(c) \/ SetCertInsert(c) \/ SetCertStore(c)
SpecAcme == InitAcme /\ [][NextAcme]_vars

-----------------------------------------------------------------------------
(* Properties                                                              *)

\* the string with every ASCII letter in lower case
Lower(s) == [i \in 1..Len(s) |-> to_ascii_lowercase(s[i])]

\* the message the detector was called on has this type and one of these subtypes
DetTypeIs(t, subs) ==
    /\ dmsg.content_type.some
    /\ Lower(dmsg.content_type.v.c_type) = t
    /\ dmsg.content_type.v.c_subtype.some
    /\ Lower(dmsg.content_type.v.c_subtype.v) \in subs

\* the rule on type and subtype, as the specification lists it
DetTypeRule ==
    \/ DetTypeIs(s_application, {s_pkcs7_mime, s_pkcs7_signature})
    \/ DetTypeIs(s_multipart, {s_encrypted})

\* the message encrypt was called on is one the detector accepts
EncInputDetected == message_is_encrypted(emsg)

(* C1: whenever is_encrypted is true of the message, encrypt(m, params)    *)
(* fails with AlreadyEncrypted and returns no bytes; so does encrypt on    *)
(* the output of a successful encrypt.                                     *)
C1_EncryptedInputIsRefused ==
    (epc = "done" /\ EncInputDetected) => result.tag = "AlreadyEncrypted"

\* a call on the output of an earlier call has returned bytes once more
C1_Witness ==
    /\ epc = "done"
    /\ round >= 1
    /\ EncInputDetected
    /\ result.tag = "Ok"

(* C2: for application/octet-stream, is_encrypted is true exactly when the *)
(* attachment name has an extension (the text after the last '.') that     *)
(* equals p7m, p7s, p7c or p7z ignoring ASCII case.                        *)
C2_ExtensionIgnoresCase ==
    (dpc = "done" /\ DetTypeIs(s_application, {s_octet_stream})) =>
        (detected <=>
            /\ dmsg.attachment_name.some
            /\ rsplit_once_dot(dmsg.attachment_name.v).some
            /\ Lower(rsplit_once_dot(dmsg.attachment_name.v).v) \in P7Extensions)

\* application/octet-stream with the name foo.P7M was found not encrypted
C2_Witness ==
    /\ dpc = "done"
    /\ DetTypeIs(s_application, {s_octet_stream})
    /\ dmsg.attachment_name = Some(s_foo \o <<46>> \o Upper(s_p7m))
    /\ ~detected

(* C3: leaving the filename rule aside, is_encrypted is true iff the       *)
(* Content-Type is application/{pkcs7-mime, pkcs7-signature} or            *)
(* multipart/encrypted, compared ignoring ASCII case; it is false when the *)
(* Content-Type or the subtype is absent and for every other pair.         *)
C3_TypeRule ==
    dpc = "done" =>
        /\ DetTypeRule => detected
        /\ (detected /\ ~DetTypeRule) =>
              (DetTypeIs(s_application, {s_octet_stream}) /\ dmsg.attachment_name.some)
        /\ ~dmsg.content_type.some => ~detected
        /\ (dmsg.content_type.some /\ ~dmsg.content_type.v.c_subtype.some) => ~detected

\* MULTIPART/Encrypted was found encrypted
C3_Witness ==
    /\ dpc = "done"
    /\ dmsg.content_type = Some([c_type |-> Upper(s_multipart),
                                 c_subtype |-> Some(Capital(s_encrypted))])
    /\ detected

\* the blocks of a blob made of armored blocks
BlobIsPem == cpc # "input" /\ shape.kind = "pem"

HasCertificate(b) == contains(Upper(b.tag), s_CERTIFICATE)
HasPgp(b) == contains(Upper(b.tag), s_PGP)

\* the method a block stands for: CERTIFICATE is looked for first
KindOf(b) ==
    IF HasCertificate(b) THEN "SMIME" ELSE IF HasPgp(b) THEN "PGP" ELSE "ignore"

\* the body of the block is a key of the block's kind
BodyFits(b) ==
    \/ KindOf(b) = "ignore"
    \/ KindOf(b) = "SMIME" /\ b.body = b64_x509
    \/ KindOf(b) = "PGP" /\ b.body = b64_pgp

AllBodiesFit == \A i \in DOMAIN shape.blocks : BodyFits(shape.blocks[i])

\* one block's tag has CERTIFICATE and another block's tag has PGP
MixedByTag ==
    \E i, j \in DOMAIN shape.blocks :
        i # j /\ HasCertificate(shape.blocks[i]) /\ HasPgp(shape.blocks[j])

\* one block stands for S/MIME and another for PGP
MixedByKind ==
    \E i, j \in DOMAIN shape.blocks :
        KindOf(shape.blocks[i]) = "SMIME" /\ KindOf(shape.blocks[j]) = "PGP"

\* the first block whose kind differs from the kind of a classified block before it
FirstClash ==
    CHOOSE j \in DOMAIN shape.blocks :
        /\ \E i \in 1..(j - 1) :
              {KindOf(shape.blocks[i]), KindOf(shape.blocks[j])} = {"SMIME", "PGP"}
        /\ \A k \in 1..(j - 1) :
              ~\E i \in 1..(k - 1) :
                  {KindOf(shape.blocks[i]), KindOf(shape.blocks[k])} = {"SMIME", "PGP"}

MixError == Err("Cannot mix PGP and S/MIME certificates")

(* C4, as claimed: a blob of well-formed armored blocks in which one       *)
(* block's BEGIN tag contains CERTIFICATE and another block's BEGIN tag    *)
(* contains PGP never parses Ok and fails with "Cannot mix PGP and S/MIME  *)
(* certificates".                                                          *)
C4_MixedByTagIsRejected ==
    (BlobIsPem /\ AllBodiesFit /\ MixedByTag) => parsed = MixError

(* C4, amended: a blob of armored blocks in which one block is classified  *)
(* S/MIME (its tag contains CERTIFICATE) and another is classified PGP     *)
(* (its tag contains PGP and not CERTIFICATE) never parses Ok; it fails    *)
(* with "Cannot mix PGP and S/MIME certificates", whichever kind comes     *)
(* first, when every classified block before the first clashing one holds *)
(* a key of its kind.                                                      *)
C4_MixedByKindIsRejected ==
    (BlobIsPem /\ MixedByKind) =>
        /\ ~parsed.ok
        /\ (\A i \in 1..(FirstClash - 1) : BodyFits(shape.blocks[i])) => parsed = MixError

\* a PGP block, an unknown block, then a certificate: rejected as mixed
C4_Witness ==
    /\ BlobIsPem
    /\ Len(shape.blocks) = 3
    /\ KindOf(shape.blocks[1]) = "PGP"
    /\ KindOf(shape.blocks[2]) = "ignore"
    /\ KindOf(shape.blocks[3]) = "SMIME"
    /\ parsed = MixError

\* every key of the list parses under the method
KeysParseUnder(method, certs) ==
    \A i \in DOMAIN certs :
        IF method = "SMIME" THEN is_x509(certs[i]) ELSE is_pgp_key(certs[i])

(* C5: whenever try_parse_certs returns Ok((method, keys)), keys is not    *)
(* empty and every key parses under method; so the params the form handler *)
(* builds from it have non-empty certs that all parse under params.method. *)
(* No input yields Ok with an empty key list.                              *)
C5_OkKeysAreValid ==
    /\ (cpc # "input" /\ parsed.ok) =>
          /\ parsed.method \in {"PGP", "SMIME"}
          /\ Len(parsed.certs) >= 1
          /\ KeysParseUnder(parsed.method, parsed.certs)
    /\ (cpc = "built" /\ built.ok) =>
          /\ Len(built.params.certs) >= 1
          /\ KeysParseUnder(built.params.method, built.params.certs)

\* params were built from a bundle of three keys
C5_Witness ==
    /\ cpc = "built"
    /\ built.ok
    /\ built.params.method = "PGP"
    /\ Len(built.params.certs) = 3

RECURSIVE ClassifiedBodies(_)
\* the decoded bodies of the classified blocks, in input order
ClassifiedBodies(blocks) ==
    IF blocks = <<>> THEN <<>>
    ELSE IF KindOf(Head(blocks)) = "ignore" THEN ClassifiedBodies(Tail(blocks))
    ELSE <<base64_decode(Head(blocks).body).v>> \o ClassifiedBodies(Tail(blocks))

\* the classified blocks agree on one method, and there is one
OneMethod ==
    /\ \E i \in DOMAIN shape.blocks : KindOf(shape.blocks[i]) # "ignore"
    /\ ~MixedByKind

(* C6: for a blob of well-formed armored blocks that agree on method, with *)
(* unknown-tag blocks anywhere among them, try_parse_certs succeeds and    *)
(* returns exactly the decoded bodies of the classified blocks, one key    *)
(* per classified block, in input order.                                   *)
C6_KeysAreDecodedBodies ==
    (BlobIsPem /\ AllBodiesFit /\ OneMethod) =>
        /\ parsed.ok
        /\ parsed.certs = ClassifiedBodies(shape.blocks)

\* a blob of one certificate block parsed to a key that is longer than the
\* decoded body of the block
C6_Witness ==
    /\ BlobIsPem
    /\ shape.blocks = <<BlockX509>>
    /\ parsed.ok
    /\ Len(parsed.certs) = 1
    /\ Len(parsed.certs[1]) > Len(base64_decode(b64_x509).v)

\* the first byte of the blob that is not ASCII whitespace, 0 if there is none
FirstByte ==
    LET at == {i \in 1..Len(blob) : ~is_ascii_whitespace(blob[i])}
    IN  IF at = {} THEN 0 ELSE blob[CHOOSE i \in at : \A j \in at : i <= j]

\* what the raw attempts give for the blob
RawResult ==
    IF is_x509(blob) THEN Ok("SMIME", <<blob>>)
    ELSE IF is_pgp_key(blob) THEN Ok("PGP", <<blob>>)
    ELSE Err("Could not find any valid certificates")

(* C7: try_parse_certs returns the classified result of the PEM scan when  *)
(* there is one; when the scan yields no match (the first non-whitespace   *)
(* byte is not '-', or no block was classified) the blob is tried as raw   *)
(* DER X.509, giving (SMIME, [blob]), then as raw OpenPGP, giving          *)
(* (PGP, [blob]), and else the result is "Could not find any valid         *)
(* certificates".                                                          *)
C7_SourcesInOrder ==
    cpc # "input" =>
        LET pem == try_parse_pem(blob)
        IN  /\ pem.tag = "some" => parsed = Ok(pem.method, pem.certs)
            /\ pem.tag = "none" => parsed = RawResult
            /\ (blob # <<>> /\ FirstByte # 45) => (pem.tag = "none" /\ parsed = RawResult)
            /\ (shape.kind = "pem"
                  /\ \A i \in DOMAIN shape.blocks : KindOf(shape.blocks[i]) = "ignore")
                  => (pem.tag = "none" /\ parsed = RawResult)

\* a raw DER certificate was classified S/MIME with the blob as its one key
C7_Witness ==
    /\ cpc = "parsed"
    /\ blob = <<48, 1, 0>>
    /\ parsed = Ok("SMIME", <<blob>>)

(* C8: for every well-formed EncryptionParams p, deserialize(serialize(p)) *)
(* succeeds and equals p field by field, the keys in the same order.       *)
C8_RoundTrip ==
    ppc = "done" =>
        /\ decoded.ok
        /\ decoded.params.method = rec.method
        /\ decoded.params.algo = rec.algo
        /\ decoded.params.certs = rec.certs

\* a record with two different keys came back from its bytes
C8_Witness ==
    /\ ppc = "done"
    /\ Len(rec.certs) = 2
    /\ rec.certs[1] # rec.certs[2]
    /\ decoded.ok
    /\ decoded.params.certs = rec.certs

(* C9: serialize emits 0x01 first; deserialize succeeds only on inputs     *)
(* whose first byte is 0x01 and whose remainder is not empty: the empty    *)
(* input, the single byte 0x01 and every input with another first byte     *)
(* fail.                                                                   *)
C9_VersionByte ==
    /\ ppc = "serialized" => wire[1] = 1
    /\ ppc \in {"done", "done_damaged"} =>
          /\ decoded.ok => (Len(wire) > 1 /\ wire[1] = 1)
          /\ (wire = <<>> \/ wire = <<1>>) => ~decoded.ok
          /\ (wire # <<>> /\ wire[1] # 1) => ~decoded.ok

\* a record with its first byte flipped to 0x02 was refused
C9_Witness ==
    /\ ppc = "done_damaged"
    /\ wire = <<2>> \o Tail(serialize(rec))
    /\ ~decoded.ok

\* how many times h occurs in the sequence
Count(h, seq) == Cardinality({i \in DOMAIN seq : seq[i] = h})

\* a is b with some elements left out, the order kept
RECURSIVE IsSubsequence(_, _)
IsSubsequence(a, b) ==
    IF a = <<>> THEN TRUE
    ELSE IF b = <<>> THEN FALSE
    ELSE IF Head(a) = Head(b) THEN IsSubsequence(Tail(a), Tail(b))
    ELSE IsSubsequence(a, Tail(b))

\* the header lines at the front of the inner message
InnerHeaders == SubSeq(inner_message, 1, Len(inner_message) - 2)

(* C10: the splitter partitions the root part's headers: every header line *)
(* goes to exactly one buffer, to the inner one iff it is a MIME header,   *)
(* in the original order, none lost and none duplicated; the inner buffer  *)
(* is its MIME header lines, CRLF, then the raw body; the outer buffer     *)
(* before the envelope is appended holds only non-MIME headers.            *)
C10_HeadersArePartitioned ==
    epc = "split" =>
        /\ Len(inner_message) >= 2
        /\ \A h \in {emsg.headers[i] : i \in DOMAIN emsg.headers} :
              /\ Count(h, InnerHeaders) + Count(h, outer_message) = Count(h, emsg.headers)
              /\ is_mime_header(h.name) => Count(h, outer_message) = 0
              /\ ~is_mime_header(h.name) => Count(h, InnerHeaders) = 0
        /\ Len(InnerHeaders) + Len(outer_message) = Len(emsg.headers)
        /\ IsSubsequence(InnerHeaders, emsg.headers)
        /\ IsSubsequence(outer_message, emsg.headers)
        /\ inner_message = mime_headers(emsg.headers) \o <<CRLF, BodyChunk(emsg.body)>>
        /\ outer_message = other_headers(emsg.headers)

\* a message with a MIME header between two equal non-MIME headers was split
C10_Witness ==
    /\ epc = "split"
    /\ emsg.headers = <<Header("Received", "x"), Header("Content-Type", "text/plain"),
                        Header("Received", "x")>>
    /\ outer_message = <<Header("Received", "x"), Header("Received", "x")>>
    /\ inner_message = <<Header("Content-Type", "text/plain"), CRLF, BodyChunk(emsg.body)>>

\* every key of the params passes every step encrypt takes with it
KeysUsable ==
    \A i \in DOMAIN params.certs :
        IF params.method = "PGP"
        THEN is_pgp_key(params.certs[i]) /\ pgp_can_encrypt(params.certs[i])
        ELSE /\ is_x509(params.certs[i])
             /\ has_rsa_key(params.certs[i])
             /\ rsa_can_wrap(params.certs[i])

(* C11: every failure of a key-parse, encoding or crypto step inside       *)
(* encrypt ends the call with Error(string): the call neither aborts nor   *)
(* returns Ok, so a call that ended returned Ok or Error, and Ok only when *)
(* no key failed a step.                                                   *)
C11_FailuresReturnError ==
    epc = "done" =>
        /\ result.tag \in {"Ok", "Error"}
        /\ result.tag = "Ok" => KeysUsable

\* the RSA wrapping failed for a certificate and the call aborted
C11_Witness ==
    /\ epc = "done"
    /\ params.method = "SMIME"
    /\ \E i \in DOMAIN params.certs :
          /\ is_x509(params.certs[i])
          /\ has_rsa_key(params.certs[i])
          /\ ~rsa_can_wrap(params.certs[i])
    /\ result = EncPanic

\* a successful S/MIME call: the recipientInfos of the EnvelopedData it emitted
SmimeDone == epc = "done" /\ result.tag = "Ok" /\ params.method = "SMIME"
EmittedInfos == work.pkcs7.recipient_infos

CpuHeavy == {"pgp_encrypt", "pgp_armor", "aes_cbc", "rsa_wrap", "der_encode"}

(* C15: within one encrypt call every CPU-heavy step (PGP encryption and   *)
(* armoring, AES-CBC, RSA key wrapping, DER encoding) runs on the blocking *)
(* worker, never on the scheduler's task.                                  *)
C15_HeavyStepsOnWorker ==
    \A r \in ran : r.step \in CpuHeavy => r.on = "worker"

\* a successful S/MIME call wrapped the key and encoded the DER on the
\* scheduler's task, after the AES-CBC step on the worker
C15_Witness ==
    /\ SmimeDone
    /\ Ran("aes_cbc", "worker") \in ran
    /\ Ran("rsa_wrap", "scheduler") \in ran
    /\ Ran("der_encode", "scheduler") \in ran

(* C12: parameters are written to the store for a principal only after    *)
(* the self-test encryption with those parameters succeeded in the same    *)
(* submission; when the self-test does not succeed, whatever the failure,  *)
(* the submission returns an error and the stored parameters are left      *)
(* unchanged.                                                              *)
C12_SavedOnlyAfterSelfTest ==
    fpc # "off" =>
        /\ \A a \in Accounts :
              (store[a] # before[a] /\ store[a].some) =>
                  /\ selftest = "Ok"
                  /\ a = token
                  /\ store[a] = Some(fparams)
        /\ (fpc = "responded" /\ selftest \notin {"none", "Ok"}) =>
              /\ response.tag = "Err"
              /\ store = before

\* a bundle that try_parse_certs accepted failed its self-test by aborting:
\* the submission returned nothing
C12_Witness ==
    /\ fpc = "responded"
    /\ fparams # None
    /\ selftest = "panic"
    /\ response = FormAbort
    /\ store = before

\* the submission asks to disable encryption with the login of a principal
DisableBy(a) ==
    /\ form # None
    /\ form.email = Some(a)
    /\ form.password = Some(PasswordOf[a])
    /\ form.encryption = Some("disable")

SaveFailed ==
    response = FormErr("Failed to save encryption parameters, please try again later")

(* C13: a submission with valid credentials and encryption = disable       *)
(* clears the stored parameters of the principal, with or without a        *)
(* certificate field and whatever the store held before (a store that      *)
(* refuses the write is reported as an error).                             *)
C13_DisableClears ==
    \A a \in Accounts :
        (fpc = "responded" /\ DisableBy(a)) =>
            \/ response = FormOk /\ store[a] = None
            \/ SaveFailed

\* a principal with stored parameters asked to disable without a
\* certificate field and kept the parameters
C13_Witness ==
    /\ fpc = "responded"
    /\ DisableBy("alice")
    /\ form.certificate = None
    /\ response = FormErr("Missing form parameters")
    /\ store["alice"].some

\* every set_cert call has returned
AllReturned == setcert # <<>> /\ \A c \in Calls : setcert[c].pc = "returned"

\* the names call c puts into the map
NamesOf(c) ==
    {strip_prefix(setcert[c].provider.domains[i]) : i \in DOMAIN setcert[c].provider.domains}
        \cup (IF setcert[c].provider.default THEN {"*"} ELSE {})

\* the calls that put name k into the map
Writers(k) == {c \in Calls : k \in NamesOf(c)}

(* C16: once all set_cert calls have returned, whatever their              *)
(* interleaving, the shared map holds every name of every call, mapped to  *)
(* the certificate of a call that wrote the name, and every earlier entry  *)
(* no call wrote is still there.                                           *)
C16_NoLostUpdate ==
    AllReturned =>
        /\ \A c \in Calls : \A k \in NamesOf(c) :
              /\ k \in DOMAIN tls_certificates
              /\ tls_certificates[k] \in Writers(k)
        /\ \A k \in DOMAIN InitialCertificates :
              Writers(k) = {} =>
                  /\ k \in DOMAIN tls_certificates
                  /\ tls_certificates[k] = InitialCertificates[k]

\* two calls for providers with different domains have both returned and
\* the map lacks the domain of the first
C16_Witness ==
    /\ AllReturned
    /\ setcert[1].provider = AcmeProvider(<<Domain(TRUE, "b.org")>>, TRUE)
    /\ setcert[2].provider = AcmeProvider(<<Domain(FALSE, "d.org")>>, TRUE)
    /\ "b.org" \notin DOMAIN tls_certificates
    /\ "d.org" \in DOMAIN tls_certificates

=============================================================================
